---- MODULE Spec2Model ----
(***************************************************************************)
(* Model of gret's rig export helpers (src/rig/helpers.py): clear_pose,    *)
(* unmark_bones, unmark_unused_bones, the arp_save wrapper and the three   *)
(* export entry points export_autorig, export_autorig_universal and        *)
(* export_fbx.                                                             *)
(*                                                                         *)
(* The scene (armature, pose bones, objects, scene options, the add-on's   *)
(* module-level save function) is the state.  Init draws a scene and one   *)
(* pending call from bounded sets; the actions run that call.              *)
(*                                                                         *)
(* Numbers: a float f is kept as the integer 10*f (0.1 -> 1, 1.0 -> 10).   *)
(* Names are strings; where the code looks inside a name (fnmatch) the     *)
(* name's characters come from Chars.                                      *)
(***************************************************************************)
EXTENDS Integers, Sequences, FiniteSets, TLC

VARIABLES
    bones,          \* rig.data.bones / rig.pose.bones: the set of bone names
    parent,         \* bone.parent, NoBone for a root
    use_deform,     \* bone.use_deform
    pose,           \* pose_bone.location / rotation_* / scale
    bprops,         \* pose_bone custom properties: key -> value
    pose_position,  \* rig.data.pose_position
    oprops,         \* custom properties of the rig object and of its data
    rna,            \* RNA attributes of the rig object and of its data
    proplist,       \* obj['properties']: the recorded data paths
    oname,          \* bpy.data.objects: object -> name
    selected,       \* selected objects
    active,         \* context.view_layer.objects.active
    scn,            \* context.scene: the exporter options
    arp_installed,  \* whether the Auto-Rig Pro add-on is loaded
    arp_save_fn,    \* the add-on's module-level arp_save entry point
    patcher,        \* the FunctionPatcher's keyword arguments
    call,           \* the call being made and its arguments
    pc,             \* position inside the call
    locals,         \* local variables of the running entry point
    exc,            \* the exception in flight, NoExc when none
    result,         \* what the call returned to its caller
    oplog,          \* invocations of the export operators, in order
    pre             \* the scene as it was when the call started

vars == <<bones, parent, use_deform, pose, bprops, pose_position, oprops, rna,
          proplist, oname, selected, active, scn, arp_installed, arp_save_fn,
          patcher, call, pc, locals, exc, result, oplog, pre>>

(***************************************************************************)
(* Bounds                                                                  *)
(***************************************************************************)
NBones == 3        \* generic bones of the armatures of SpecBones
MaxUnmarked == 1   \* IK bones present but without 'custom_bone', at most

NoBone == "<none>"
NoExc == "<none>"
None == "<None>"

(***************************************************************************)
(* Names                                                                   *)
(***************************************************************************)
ik_bone_names ==
    << "ik_foot_root", "ik_foot.l", "ik_foot.r", "ik_hand_root",
       "ik_hand_gun", "ik_hand.l", "ik_hand.r" >>

IKNames == {ik_bone_names[i] : i \in 1..Len(ik_bone_names)}

GenericNames == << "a", "ab", "b", "ba", "abb" >>

\* The characters of every name and pattern of the model.
Chars(s) ==
    CASE s = "a" -> << "a" >>
      [] s = "ab" -> << "a", "b" >>
      [] s = "b" -> << "b" >>
      [] s = "ba" -> << "b", "a" >>
      [] s = "abb" -> << "a", "b", "b" >>
      [] s = "zz" -> << "z", "z" >>
      [] s = "c_pos" -> << "c", "_", "p", "o", "s" >>
      [] s = "a*" -> << "a", "*" >>
      [] s = "?b" -> << "?", "b" >>
      [] s = "*" -> << "*" >>
      [] s = "*a" -> << "*", "a" >>
      [] s = "ik_*" -> << "i", "k", "_", "*" >>
      [] s = "ik_foot_root" ->
            << "i", "k", "_", "f", "o", "o", "t", "_", "r", "o", "o", "t" >>
      [] s = "ik_foot.l" -> << "i", "k", "_", "f", "o", "o", "t", ".", "l" >>
      [] s = "ik_foot.r" -> << "i", "k", "_", "f", "o", "o", "t", ".", "r" >>
      [] s = "ik_hand_root" ->
            << "i", "k", "_", "h", "a", "n", "d", "_", "r", "o", "o", "t" >>
      [] s = "ik_hand_gun" ->
            << "i", "k", "_", "h", "a", "n", "d", "_", "g", "u", "n" >>
      [] s = "ik_hand.l" -> << "i", "k", "_", "h", "a", "n", "d", ".", "l" >>
      [] s = "ik_hand.r" -> << "i", "k", "_", "h", "a", "n", "d", ".", "r" >>

\* The order in which rig.data.bones is iterated.
BoneOrder ==
    << "c_pos", "ba", "a", "abb", "ab", "b",
       "ik_foot_root", "ik_foot.l", "ik_foot.r", "ik_hand_root",
       "ik_hand_gun", "ik_hand.l", "ik_hand.r" >>

InBones(n) == n \in bones

BoneSeq == SelectSeq(BoneOrder, InBones)

(***************************************************************************)
(* fnmatch(name, pat): '*' matches any run of characters, '?' any one      *)
(* character, anything else itself (no pattern of the model holds a '[').  *)
(***************************************************************************)
RECURSIVE GlobMatch(_, _)
GlobMatch(p, s) ==
    IF p = << >> THEN s = << >>
    ELSE IF Head(p) = "*"
         THEN GlobMatch(Tail(p), s) \/ (s # << >> /\ GlobMatch(p, Tail(s)))
         ELSE /\ s # << >>
              /\ (Head(p) = "?" \/ Head(p) = Head(s))
              /\ GlobMatch(Tail(p), Tail(s))

fnmatch(name, pat) == GlobMatch(Chars(pat), Chars(name))

\* any(fnmatch(bone.name, s) for s in bone_names)
MatchesAny(name, bone_names) ==
    \E i \in 1..Len(bone_names) : fnmatch(name, bone_names[i])

(***************************************************************************)
(* The bone tree                                                           *)
(***************************************************************************)
RECURSIVE Ancestors(_, _)
Ancestors(par, b) ==
    IF par[b] = NoBone THEN {} ELSE {par[b]} \cup Ancestors(par, par[b])

\* bone.children_recursive
children_recursive(par, b) == {c \in DOMAIN par : b \in Ancestors(par, c)}

(***************************************************************************)
(* unmark_bones(rig, bone_names): the deform flags after the loop over     *)
(* rig.data.bones, taken in the order `order`, from position i on.         *)
(***************************************************************************)
RECURSIVE UnmarkBonesFrom(_, _, _, _, _)
UnmarkBonesFrom(order, i, par, deform, bone_names) ==
    IF i > Len(order) THEN deform
    ELSE LET bone == order[i]
             hit == deform[bone] /\ MatchesAny(bone, bone_names)
             next == IF hit
                     THEN [c \in DOMAIN deform |->
                             IF c = bone \/ c \in children_recursive(par, bone)
                             THEN FALSE ELSE deform[c]]
                     ELSE deform
         IN UnmarkBonesFrom(order, i + 1, par, next, bone_names)

unmark_bones(order, par, deform, bone_names) ==
    UnmarkBonesFrom(order, 1, par, deform, bone_names)

(***************************************************************************)
(* Objects of the scene.  Their types and vertex groups never change.      *)
(***************************************************************************)
Objects == {"rig", "mesh1", "mesh2", "lat", "empty"}

ObjType(o) ==
    CASE o = "rig" -> "ARMATURE"
      [] o = "mesh1" -> "MESH"
      [] o = "mesh2" -> "MESH"
      [] o = "lat" -> "LATTICE"
      [] o = "empty" -> "EMPTY"

\* vg.name for vg in obj.vertex_groups
VertexGroups(o) ==
    CASE o = "mesh1" -> {"ab"}
      [] o = "mesh2" -> {"b", "zz"}
      [] o = "lat" -> {"a"}
      [] OTHER -> {}

(***************************************************************************)
(* unmark_unused_bones(rig, objs)                                          *)
(***************************************************************************)
\* while bone: bone.use_deform = True; bone = bone.parent
RECURSIVE MarkChain(_, _, _)
MarkChain(par, deform, bone) ==
    IF bone = NoBone THEN deform
    ELSE MarkChain(par, [deform EXCEPT ![bone] = TRUE], par[bone])

\* for vgroup_name in vgroup_names: bone = bones.get(vgroup_name) ...
RECURSIVE MarkGroups(_, _, _)
MarkGroups(par, deform, names) ==
    IF names = {} THEN deform
    ELSE LET n == CHOOSE x \in names : TRUE
             bone == IF n \in DOMAIN par THEN n ELSE NoBone
         IN MarkGroups(par, MarkChain(par, deform, bone), names \ {n})

\* unmark_unused_bones without the test of obj.type: the vertex groups of
\* every object, mesh or not.
unmark_unused_bones_any_type(par, objs) ==
    MarkGroups(par, [b \in DOMAIN par |-> FALSE],
               UNION {VertexGroups(o) : o \in objs})

unmark_unused_bones(par, objs) ==
    LET cleared == [b \in DOMAIN par |-> FALSE]
        meshes == {o \in objs : ObjType(o) = "MESH"}
        vgroup_names == UNION {VertexGroups(o) : o \in meshes}
    IN MarkGroups(par, cleared, vgroup_names)

(***************************************************************************)
(* Values                                                                  *)
(***************************************************************************)
EmptyMap == << >>

\* Vector(), Quaternion(), Euler(), [0.0, 0.0, 1.0, 0.0], Vector((1, 1, 1))
IdentityTransform ==
    [ location |-> << 0, 0, 0 >>,
      rotation_quaternion |-> << 10, 0, 0, 0 >>,
      rotation_euler |-> << 0, 0, 0 >>,
      rotation_axis_angle |-> << 0, 0, 10, 0 >>,
      scale |-> << 10, 10, 10 >> ]

\* Get(m, k, d) is m.get(k, d)
Get(m, k, d) == IF k \in DOMAIN m THEN m[k] ELSE d

Scene ==
    [ bones |-> bones, parent |-> parent, use_deform |-> use_deform,
      pose |-> pose, bprops |-> bprops, pose_position |-> pose_position,
      oprops |-> oprops, rna |-> rna, proplist |-> proplist,
      oname |-> oname, selected |-> selected, active |-> active,
      scn |-> scn, arp_save_fn |-> arp_save_fn, patcher |-> patcher ]

(***************************************************************************)
(* Property values: [t |-> type, v |-> number].  An "array" stands for a   *)
(* value whose type cannot be called without arguments (IDPropertyArray).  *)
(***************************************************************************)
F(x) == [t |-> "float", v |-> x]
I(x) == [t |-> "int", v |-> x]

\* None, where a value is expected
NoValue == [t |-> "None", v |-> 0]

\* arp_default_pose_values; 'autolips' is None ('Different values')
arp_default_pose_values ==
    [ arm_twist |-> F(0), auto_eyelid |-> F(1), auto_stretch |-> F(0),
      autolips |-> NoValue, bend_all |-> F(0), elbow_pin |-> F(0),
      eye_target |-> F(10), fingers_grasp |-> F(0), fix_roll |-> F(0),
      head_free |-> I(0), ik_fk_switch |-> F(10), ik_tip |-> I(0),
      leg_pin |-> F(0), lips_retain |-> F(0), lips_stretch |-> F(10),
      pole_parent |-> I(1), stretch_length |-> F(10), stretch_mode |-> I(1),
      thigh_twist |-> F(0), twist |-> F(0), volume_variation |-> F(0),
      y_scale |-> I(2) ]

default_pose_values == EmptyMap

\* prop_name.startswith("_"), for the property names of the model
StartsWithUnderscore(k) == k \in {"_lock"}

\* type(prop_value)(): [ok |-> FALSE] stands for the TypeError
TypeZero(val) ==
    CASE val.t = "float" -> [ok |-> TRUE, val |-> F(0)]
      [] val.t = "int" -> [ok |-> TRUE, val |-> I(0)]
      [] val.t = "str" -> [ok |-> TRUE, val |-> [t |-> "str", v |-> 0]]
      [] OTHER -> [ok |-> FALSE, val |-> val]

(***************************************************************************)
(* Data paths are sequences of characters.                                 *)
(***************************************************************************)
Q == "\""

NoQuote(p, lo, hi) == \A i \in lo..hi : p[i] # Q

NoQuoteNoDot(p, lo, hi) == \A i \in lo..hi : p[i] # Q /\ p[i] # "."

\* The name a run of characters spells, for the names of the model.
Word(w) ==
    IF Len(w) = 1 THEN w[1]
    ELSE IF w = << "d", "a", "t", "a" >> THEN "data"
    ELSE IF w = << "p", "o", "s", "e", ".", "b", "o", "n", "e", "s" >>
         THEN "pose.bones"
    ELSE "?"

\* custom_prop_pattern.fullmatch(path): (.+)?\["([^"]+)"\]
\* the positions j of the '[' that opens the key; at most one
CustomSplits(p) ==
    {j \in 1..(Len(p) - 4) :
        /\ p[Len(p)] = "]" /\ p[Len(p) - 1] = Q
        /\ p[j] = "[" /\ p[j + 1] = Q
        /\ NoQuote(p, j + 2, Len(p) - 2)}

\* prop_pattern.fullmatch(path): (?:(.+)\.)?([^"\.]+)
\* the positions j of the dot before the name, 0 when the path has no prefix
PropSplits(p) ==
    {j \in 0..(Len(p) - 1) :
        /\ NoQuoteNoDot(p, j + 1, Len(p))
        /\ j # 1
        /\ j > 0 => p[j] = "."}

\* The custom properties of a struct: the object, its data, or a pose bone.
CustomOf(st, struct) ==
    IF struct \in DOMAIN st.oprops THEN st.oprops[struct] ELSE st.bprops[struct]

ResolveFail == [ok |-> FALSE, kind |-> "none", struct |-> "?"]

\* data.path_resolve(path): a struct, a value, or ValueError (ok = FALSE)
PathResolve(st, struct, p) ==
    LET n == Len(p)
        cs == CustomSplits(p)
    IN IF cs = {1}
       THEN IF Word(SubSeq(p, 3, n - 2)) \in DOMAIN CustomOf(st, struct)
            THEN [ok |-> TRUE, kind |-> "value", struct |-> struct]
            ELSE ResolveFail
       ELSE IF struct = "obj" /\ Word(p) = "data"
       THEN [ok |-> TRUE, kind |-> "struct", struct |-> "data"]
       ELSE IF /\ struct = "obj" /\ cs # {}
               /\ \A j \in cs : Word(SubSeq(p, 1, j - 1)) = "pose.bones"
       THEN LET j == CHOOSE k \in cs : TRUE
                bone == Word(SubSeq(p, j + 2, n - 2))
            IN IF bone \in DOMAIN st.bprops
               THEN [ok |-> TRUE, kind |-> "struct", struct |-> bone]
               ELSE ResolveFail
       ELSE IF struct \in DOMAIN st.rna /\ n = 1 /\ p[1] \in DOMAIN st.rna[struct]
       THEN [ok |-> TRUE, kind |-> "value", struct |-> struct]
       ELSE ResolveFail

NoWrapper == [tag |-> "none", data |-> "?", path |-> "?", is_custom |-> FALSE]
Raised == [tag |-> "raise", data |-> "?", path |-> "?", is_custom |-> FALSE]

\* The part of from_path the two patterns share: resolve the prefix, check
\* that the property exists, build the wrapper.  A ValueError gives None; a
\* prefix that resolves to a plain value has no path_resolve (AttributeError).
WrapAt(st, data, prefix, last, name, is_custom) ==
    LET base == IF prefix = << >>
                THEN [ok |-> TRUE, kind |-> "struct", struct |-> data]
                ELSE PathResolve(st, data, prefix)
    IN IF ~base.ok THEN NoWrapper
       ELSE IF base.kind # "struct" THEN Raised
       ELSE IF ~PathResolve(st, base.struct, last).ok THEN NoWrapper
       ELSE [tag |-> "wrapper", data |-> base.struct, path |-> name,
             is_custom |-> is_custom]

\* PropertyWrapper.from_path(data, data_path)
from_path(st, data, p) ==
    LET cs == CustomSplits(p)
        ps == PropSplits(p)
    IN IF cs # {}
       THEN LET j == CHOOSE k \in cs : TRUE
            IN WrapAt(st, data, SubSeq(p, 1, j - 1), SubSeq(p, j, Len(p)),
                      Word(SubSeq(p, j + 2, Len(p) - 2)), TRUE)
       ELSE IF ps # {}
       THEN LET j == CHOOSE k \in ps : \A m \in ps : m <= k
            IN WrapAt(st, data, SubSeq(p, 1, j - 1), SubSeq(p, j + 1, Len(p)),
                      Word(SubSeq(p, j + 1, Len(p))), FALSE)
       ELSE NoWrapper

(***************************************************************************)
(* Defaults of the properties of the model.                                *)
(***************************************************************************)
\* id_properties_ui(name).as_dict()['default']: "n" has no UI default and
\* the lookup raises
HasUIDefault(key) == key # "n"

UIDefault(key) == IF key = "i" THEN I(7) ELSE F(5)

\* bl_rna.properties[name].default
RNADefault(attr) == F(20)

\* setattr(data, name, value) raises AttributeError on a read-only property
ReadOnly(attr) == attr = "r"

SetCustom(st, struct, key, val) ==
    IF struct \in DOMAIN st.oprops
    THEN [st EXCEPT !.oprops[struct][key] = val]
    ELSE [st EXCEPT !.bprops[struct][key] = val]

\* One pass of the loop over obj['properties']:
\*   try: prop_wrapper = PropertyWrapper.from_path(obj, data_path)
\*        if prop_wrapper: prop_wrapper.value = prop_wrapper.default_value
\*   except Exception: logd(...)
ClearProp(st, data_path) ==
    LET w == from_path(st, "obj", data_path)
    IN IF w.tag # "wrapper" THEN st
       ELSE IF w.is_custom
       THEN IF HasUIDefault(w.path)
            THEN SetCustom(st, w.data, w.path, UIDefault(w.path))
            ELSE st
       ELSE IF ReadOnly(w.path) THEN st
       ELSE [st EXCEPT !.rna[w.data][w.path] = RNADefault(w.path)]

\* Whether one pass of the loop ends in its except clause or with no wrapper.
Skipped(st, data_path) ==
    LET w == from_path(st, "obj", data_path)
    IN \/ w.tag # "wrapper"
       \/ w.is_custom /\ ~HasUIDefault(w.path)
       \/ ~w.is_custom /\ ReadOnly(w.path)

\* The loop without its try: the first failure ends it.
RECURSIVE ClearGretPropsAborting(_, _, _)
ClearGretPropsAborting(st, paths, i) ==
    IF i > Len(paths) \/ Skipped(st, paths[i]) THEN st
    ELSE ClearGretPropsAborting(ClearProp(st, paths[i]), paths, i + 1)

\* for data_path in obj.get('properties', []): ...
RECURSIVE ClearGretProps(_, _, _)
ClearGretProps(st, paths, i) ==
    IF i > Len(paths) THEN st
    ELSE ClearGretProps(ClearProp(st, paths[i]), paths, i + 1)

\* for prop_name, prop_value in obj.items(): floats become 0.0
ClearArmatureProps(props) ==
    [k \in DOMAIN props |-> IF props[k].t = "float" THEN F(0) ELSE props[k]]

\* is_object_arp(obj), for the armature
is_object_arp(st) == "c_pos" \in DOMAIN st.bprops

\* The custom properties of one pose bone after the clear_bone_props loop.
ClearBoneProps(props, is_arp) ==
    [k \in DOMAIN props |->
        IF is_arp /\ k \in DOMAIN arp_default_pose_values
        THEN IF arp_default_pose_values[k] # NoValue
             THEN arp_default_pose_values[k] ELSE props[k]
        ELSE IF k \in DOMAIN default_pose_values
        THEN IF default_pose_values[k] # NoValue
             THEN default_pose_values[k] ELSE props[k]
        ELSE IF StartsWithUnderscore(k) THEN props[k]
        ELSE TypeZero(props[k]).val]

\* The loop over obj.pose.bones that leaves the transforms of a bone alone
\* when clear_bone_props is off.
PoseBoneLoopNested(st, clear_bone_props) ==
    LET is_arp == is_object_arp(st)
    IN [st EXCEPT
          !.bprops = [b \in DOMAIN st.bprops |->
                        IF clear_bone_props
                        THEN ClearBoneProps(st.bprops[b], is_arp)
                        ELSE st.bprops[b]],
          !.pose = [b \in DOMAIN st.pose |->
                        IF clear_bone_props THEN IdentityTransform
                        ELSE st.pose[b]]]

\* for pose_bone in obj.pose.bones: ...
PoseBoneLoop(st, clear_bone_props) ==
    LET is_arp == is_object_arp(st)
    IN [st EXCEPT
          !.bprops = [b \in DOMAIN st.bprops |->
                        IF clear_bone_props
                        THEN ClearBoneProps(st.bprops[b], is_arp)
                        ELSE st.bprops[b]],
          !.pose = [b \in DOMAIN st.pose |-> IdentityTransform]]

\* clear_pose(obj, clear_gret_props, clear_armature_props, clear_bone_props)
\* on st = [oprops, bprops, rna, pose, proplist]
clear_pose(st, obj, clear_gret_props, clear_armature_props, clear_bone_props) ==
    IF obj = None \/ ObjType(obj) # "ARMATURE" THEN st
    ELSE LET s1 == IF clear_gret_props
                   THEN ClearGretProps(st, st.proplist, 1) ELSE st
             s2 == IF clear_armature_props
                   THEN [s1 EXCEPT !.oprops["obj"] = ClearArmatureProps(@)]
                   ELSE s1
         IN PoseBoneLoop(s2, clear_bone_props)

RigState ==
    [oprops |-> oprops, bprops |-> bprops, rna |-> rna, pose |-> pose,
     proplist |-> proplist]

(***************************************************************************)
(* Scene options.  PriorScn is a scene whose exporter options were last    *)
(* set by the user; every field differs from what the exports write.       *)
(***************************************************************************)
PriorScn ==
    [ arp_engine_type |-> "unity", arp_export_rig_type |-> "generic",
      arp_ge_sel_only |-> FALSE, arp_keep_bend_bones |-> TRUE,
      arp_push_bend |-> TRUE, arp_full_facial |-> FALSE,
      arp_export_twist |-> FALSE, arp_export_noparent |-> TRUE,
      arp_export_renaming |-> FALSE, arp_units_x100 |-> FALSE,
      arp_ue4 |-> FALSE, arp_ue_root_motion |-> FALSE,
      arp_rename_for_ue |-> FALSE, arp_ue_ik |-> FALSE,
      arp_ue_ik_anim |-> FALSE, arp_mannequin_axes |-> FALSE,
      arp_bake_anim |-> TRUE, arp_bake_type |-> "NLA",
      arp_export_separate_fbx |-> TRUE, arp_frame_range_type |-> "FULL",
      arp_export_start_frame |-> 1, arp_export_end_frame |-> 250,
      arp_export_act_name |-> "NONE", arp_simplify_fac |-> 1,
      arp_export_use_actlist |-> FALSE,
      arp_export_actlist |-> << [actions |-> << "idle" >>] >>,
      arp_global_scale |-> 1, arp_mesh_smooth_type |-> "OFF",
      arp_use_tspace |-> TRUE, arp_fix_fbx_rot |-> FALSE,
      arp_fix_fbx_matrix |-> FALSE, arp_init_fbx_rot |-> TRUE,
      arp_init_fbx_rot_mesh |-> TRUE, arp_bone_axis_primary_export |-> "X",
      arp_bone_axis_secondary_export |-> "Z", arp_export_rig_name |-> "rig",
      arp_export_tex |-> TRUE ]

\* int(x) of a float kept as 10*x: truncation toward zero
IntOf(x10) == IF x10 >= 0 THEN x10 \div 10 ELSE -((-x10) \div 10)

\* action=None
NoAction ==
    [ name |-> None, use_frame_range |-> FALSE, frame_start |-> 0,
      frame_end |-> 0, curve_frame_range |-> << 0, 0 >> ]

\* The '# Animation' block of export_autorig and export_autorig_universal.
AnimationOptions(action) ==
    IF action = NoAction
    THEN [ arp_bake_anim |-> FALSE ]
    ELSE [ arp_bake_anim |-> TRUE, arp_bake_type |-> "ACTIONS",
           arp_export_separate_fbx |-> FALSE,
           arp_frame_range_type |-> "CUSTOM",
           arp_export_start_frame |->
               IF action.use_frame_range THEN IntOf(action.frame_start)
               ELSE IntOf(action.curve_frame_range[1]),
           arp_export_end_frame |->
               IF action.use_frame_range THEN IntOf(action.frame_end)
               ELSE IntOf(action.curve_frame_range[2]),
           arp_export_act_name |-> "DEFAULT", arp_simplify_fac |-> 0,
           arp_export_use_actlist |-> TRUE,
           arp_export_actlist |-> << [actions |-> << action.name >>] >> ]

\* The '# Misc' block.
MiscOptions ==
    [ arp_global_scale |-> 10, arp_mesh_smooth_type |-> "EDGE",
      arp_use_tspace |-> FALSE, arp_fix_fbx_rot |-> TRUE,
      arp_fix_fbx_matrix |-> TRUE, arp_init_fbx_rot |-> FALSE,
      arp_init_fbx_rot_mesh |-> FALSE, arp_bone_axis_primary_export |-> "Y",
      arp_bone_axis_secondary_export |-> "X", arp_export_rig_name |-> "root",
      arp_export_tex |-> FALSE ]

\* export_autorig's configuration without the assignment of arp_ue_ik.
ConfigureAutorigKeepIK(s, options, action, add_ik_bones) ==
    [ arp_engine_type |-> "unreal", arp_export_rig_type |-> "humanoid",
      arp_ge_sel_only |-> TRUE, arp_keep_bend_bones |-> FALSE,
      arp_push_bend |-> FALSE, arp_full_facial |-> TRUE,
      arp_export_twist |-> Get(options, "export_twist", TRUE),
      arp_export_noparent |-> FALSE, arp_export_renaming |-> TRUE,
      arp_units_x100 |-> TRUE, arp_ue4 |-> TRUE, arp_ue_root_motion |-> TRUE,
      arp_rename_for_ue |-> TRUE,
      arp_ue_ik_anim |-> TRUE, arp_mannequin_axes |-> TRUE ]
    @@ AnimationOptions(action) @@ MiscOptions @@ s

\* The scene after export_autorig's configuration.
ConfigureAutorig(s, options, action, add_ik_bones) ==
    [ arp_engine_type |-> "unreal", arp_export_rig_type |-> "humanoid",
      arp_ge_sel_only |-> TRUE, arp_keep_bend_bones |-> FALSE,
      arp_push_bend |-> FALSE, arp_full_facial |-> TRUE,
      arp_export_twist |-> Get(options, "export_twist", TRUE),
      arp_export_noparent |-> FALSE, arp_export_renaming |-> TRUE,
      arp_units_x100 |-> TRUE, arp_ue4 |-> TRUE, arp_ue_root_motion |-> TRUE,
      arp_rename_for_ue |-> TRUE, arp_ue_ik |-> add_ik_bones,
      arp_ue_ik_anim |-> TRUE, arp_mannequin_axes |-> TRUE ]
    @@ AnimationOptions(action) @@ MiscOptions @@ s

\* The scene after export_autorig_universal's configuration.
ConfigureUniversal(s, options, action) ==
    [ arp_engine_type |-> "unreal", arp_export_rig_type |-> "mped",
      arp_ge_sel_only |-> TRUE, arp_keep_bend_bones |-> FALSE,
      arp_push_bend |-> FALSE,
      arp_export_twist |-> Get(options, "export_twist", TRUE),
      arp_export_noparent |-> FALSE, arp_export_renaming |-> TRUE,
      arp_units_x100 |-> TRUE, arp_ue_root_motion |-> TRUE ]
    @@ AnimationOptions(action) @@ MiscOptions @@ s

(***************************************************************************)
(* The IK bone check of export_autorig.                                    *)
(***************************************************************************)
\* [s for s in ik_bone_names if s not in rig.pose.bones
\*    or 'custom_bone' not in rig.pose.bones[s]]
IsIKMissingByName(s) == s \notin bones

IsIKMissing(s) == s \notin bones \/ "custom_bone" \notin DOMAIN bprops[s]

ik_bones_not_found == SelectSeq(ik_bone_names, IsIKMissing)

\* The check without its last branch: IK bones are created whenever one is
\* missing.
IKVerdictLenient(not_found) ==
    IF not_found = << >> THEN "ok_all" ELSE "ok_none"

\* "ok_all", "ok_none", or "raise" when only some IK bones were found

IKVerdict(not_found) ==
    IF not_found = << >> THEN "ok_all"
    ELSE IF Len(not_found) = Len(ik_bone_names) THEN "ok_none"
    ELSE "raise"

(***************************************************************************)
(* Object names.  Assigning a name another object holds gives the renamed  *)
(* object a numbered name instead, as the host keeps names unique.         *)
(***************************************************************************)
SetName(names, o, new) ==
    IF \E x \in DOMAIN names : x # o /\ names[x] = new
    THEN [names EXCEPT ![o] = new \o ".001"]
    ELSE [names EXCEPT ![o] = new]

\* bpy.data.objects.get(name)
ObjectNamed(names, n) ==
    IF \E o \in DOMAIN names : names[o] = n
    THEN CHOOSE o \in DOMAIN names : names[o] = n
    ELSE None

root_bone_name == "root"

\* export_fbx lines 433-438: the names after the temporary renames
RenameForExport(names, rig) ==
    LET existing == ObjectNamed(names, root_bone_name)
        n1 == IF existing # None
              THEN SetName(names, existing, root_bone_name \o "_")
              ELSE names
    IN SetName(n1, rig, root_bone_name)

\* export_fbx lines 495-497: the names after the clean up
RestoreNames(names, rig, saved_rig_name, existing) ==
    LET n1 == SetName(names, rig, saved_rig_name)
    IN IF existing # None THEN SetName(n1, existing, root_bone_name) ELSE n1

(***************************************************************************)
(* The bone-unmarking options, as arp_save and export_fbx apply them.      *)
(***************************************************************************)
\* The two steps of arp_save in the other order: patterns first, then the
\* bones the meshes use.
arp_save_deform_minimize_last(order, par, deform, options, selected_objects) ==
    LET remove_bone_names == Get(options, "remove_bones", << >>)
        d1 == IF remove_bone_names # << >>
              THEN unmark_bones(order, par, deform, remove_bone_names)
              ELSE deform
    IN IF Get(options, "minimize_bones", FALSE)
       THEN unmark_unused_bones(par, selected_objects) ELSE d1

\* arp_save lines 258-262, on context.active_object / selected_objects
arp_save_deform(order, par, deform, options, selected_objects) ==
    LET d1 == IF Get(options, "minimize_bones", FALSE)
              THEN unmark_unused_bones(par, selected_objects) ELSE deform
        remove_bone_names == Get(options, "remove_bones", << >>)
    IN IF remove_bone_names # << >>
       THEN unmark_bones(order, par, d1, remove_bone_names) ELSE d1

\* export_fbx lines 442-446, on rig / objects
fbx_deform(order, par, deform, options, objects) ==
    LET d1 == IF Get(options, "minimize_bones", FALSE)
              THEN unmark_unused_bones(par, objects) ELSE deform
        remove_bone_names == Get(options, "remove_bones", << >>)
    IN IF remove_bone_names # << >>
       THEN unmark_bones(order, par, d1, remove_bone_names) ELSE d1

\* Whether the options make arp_save / export_fbx call an unmark function.
Unmarks(options) ==
    \/ Get(options, "minimize_bones", FALSE)
    \/ Get(options, "remove_bones", << >>) # << >>

(***************************************************************************)
(* The wrappers around the entry points.                                   *)
(***************************************************************************)
EntryPoints == {"export_autorig", "export_autorig_universal", "export_fbx"}

ArpEntryPoints == {"export_autorig", "export_autorig_universal"}

\* The entry points decorated with @intercept(error_result={'CANCELLED'});
\* InterceptedAllButFbx leaves the decorator of export_fbx out.
InterceptedAllButFbx == {"export_autorig", "export_autorig_universal"}

Intercepted == {"export_autorig", "export_autorig_universal", "export_fbx"}

error_result == "CANCELLED"

\* with FunctionPatcher(...) as patcher: the ways of leaving the block that
\* run the patcher's __exit__.  A with statement runs it on return and on
\* exception; enter and exit called by hand run it on return only.
WithExitsOnReturnOnly == {"op_done"}

WithExits == {"op_done", "op_raised"}

\* FunctionPatcher.__enter__ puts the wrapper in the add-on's module in
\* place of arp_save, __exit__ puts the original function back.
FunctionPatcherEnter == "wrapper"

FunctionPatcherExit == "original"

\* select_only(context, objects): the selection is exactly the objects
select_only(objects) == objects

(***************************************************************************)
(* Call state                                                              *)
(***************************************************************************)
NoLocals ==
    [ add_ik_bones |-> FALSE, saved_rig_name |-> None,
      existing_obj_named_root |-> None, result |-> None,
      renamed |-> FALSE, raised |-> NoExc, raised_at |-> "none" ]

fixedVars == << bones, parent, proplist, arp_installed, call, pre >>
rigVars == << use_deform, pose, bprops, pose_position, oprops, rna >>
objVars == << oname, selected, active >>
addonVars == << scn, arp_save_fn, patcher >>

\* raise e, at position `at` of the entry point
Raise(e, at) ==
    /\ exc' = e
    /\ locals' = [locals EXCEPT !.raised = e, !.raised_at = at]
    /\ pc' = "raising"

InitCall ==
    /\ pc = "idle"
    /\ locals = NoLocals
    /\ exc = NoExc
    /\ result = None
    /\ oplog = << >>
    /\ pre = Scene

DefaultNames ==
    [ rig |-> "Armature", mesh1 |-> "Body", mesh2 |-> "Hair",
      lat |-> "Lattice", empty |-> "Empty" ]

InitQuietScene ==
    /\ pose_position = "REST"
    /\ selected = {"empty"}
    /\ active = "empty"
    /\ scn = PriorScn
    /\ arp_save_fn = "original"
    /\ patcher = EmptyMap

\* The scenes the export entry points start on: the exporter options as
\* last left, with the IK option either way.
PriorScns == {PriorScn, [PriorScn EXCEPT !.arp_ue_ik = TRUE]}

InitExportScene ==
    /\ pose_position = "REST"
    /\ selected = {"empty"}
    /\ active = "empty"
    /\ scn \in PriorScns
    /\ arp_save_fn = "original"
    /\ patcher = EmptyMap

DefaultRna == [obj |-> [x |-> F(3), r |-> F(1)], data |-> [x |-> F(4)]]

(***************************************************************************)
(* SpecBones: unmark_bones and unmark_unused_bones on every bone tree      *)
(***************************************************************************)
RECURSIVE ReachesRoot(_, _, _)
ReachesRoot(par, b, n) ==
    IF b = NoBone THEN TRUE
    ELSE IF n = 0 THEN FALSE
    ELSE ReachesRoot(par, par[b], n - 1)

Forests(bs) ==
    {par \in [bs -> bs \cup {NoBone}] :
        \A b \in bs : ReachesRoot(par, b, Cardinality(bs))}

PatternLists ==
    { << >>, << "a" >>, << "a*" >>, << "?b" >>, << "*" >>, << "b", "ba" >>,
      << "zz" >> }

BoneCalls ==
    {[fn |-> "unmark_bones", bone_names |-> P] : P \in PatternLists}
    \cup {[fn |-> "unmark_unused_bones", objs |-> M] :
            M \in SUBSET {"mesh1", "mesh2", "lat"}}

InitBones ==
    /\ bones = {GenericNames[i] : i \in 1..NBones}
    /\ parent \in Forests(bones)
    /\ use_deform \in [bones -> BOOLEAN]
    /\ pose = [b \in bones |-> IdentityTransform]
    /\ bprops = [b \in bones |-> EmptyMap]
    /\ oprops = [obj |-> EmptyMap, data |-> EmptyMap]
    /\ rna = DefaultRna
    /\ proplist = << >>
    /\ oname = DefaultNames
    /\ arp_installed = TRUE
    /\ InitQuietScene
    /\ call \in BoneCalls
    /\ InitCall

CallUnmarkBones ==
    /\ pc = "idle"
    /\ call.fn = "unmark_bones"
    /\ use_deform' = unmark_bones(BoneSeq, parent, use_deform, call.bone_names)
    /\ pc' = "done"
    /\ UNCHANGED << fixedVars, pose, bprops, pose_position, oprops, rna,
                    objVars, addonVars, locals, exc, result, oplog >>

CallUnmarkUnusedBones ==
    /\ pc = "idle"
    /\ call.fn = "unmark_unused_bones"
    /\ use_deform' = unmark_unused_bones(parent, call.objs)
    /\ pc' = "done"
    /\ UNCHANGED << fixedVars, pose, bprops, pose_position, oprops, rna,
                    objVars, addonVars, locals, exc, result, oplog >>

NextBones == CallUnmarkBones \/ CallUnmarkUnusedBones

SpecBones == InitBones /\ [][NextBones]_vars

(***************************************************************************)
(* SpecPose: clear_pose on armatures with posed bones, custom properties   *)
(* and recorded property paths                                             *)
(***************************************************************************)
MaxPaths == 2      \* recorded paths in obj['properties'], at most

PosedTransform ==
    [ location |-> << 10, 0, -25 >>,
      rotation_quaternion |-> << 7, 7, 0, 0 >>,
      rotation_euler |-> << 15, 0, 0 >>,
      rotation_axis_angle |-> << 15, 10, 0, 0 >>,
      scale |-> << 20, 20, 20 >> ]

ScaledTransform == [IdentityTransform EXCEPT !.scale = << 10, 10, 0 >>]

TransformPool == {IdentityTransform, PosedTransform, ScaledTransform}

\* Recorded data paths: the first five resolve and can be reset, the others
\* cannot.
Path_x == << "x" >>
Path_k == << "[", Q, "k", Q, "]" >>
Path_i == << "[", Q, "i", Q, "]" >>
Path_data_x == << "d", "a", "t", "a", ".", "x" >>
Path_bone_k ==
    << "p", "o", "s", "e", ".", "b", "o", "n", "e", "s", "[", Q, "a", Q, "]",
       "[", Q, "k", Q, "]" >>
Path_gone == << "[", Q, "g", Q, "]" >>
Path_bad == << "x", "." >>
Path_r == << "r" >>
Path_n == << "[", Q, "n", Q, "]" >>
Path_x_k == << "x", "[", Q, "k", Q, "]" >>

PathPool ==
    { Path_x, Path_k, Path_i, Path_data_x, Path_bone_k, Path_gone, Path_bad,
      Path_r, Path_n, Path_x_k }

PathLists == UNION {[1..n -> PathPool] : n \in 0..MaxPaths}

ObjectProps ==
    [ obj |-> [k |-> F(9), i |-> I(4), n |-> [t |-> "str", v |-> 1],
               s |-> F(2)],
      data |-> [k |-> F(8)] ]

BoneProps ==
    ("_lock" :> I(3))
    @@ [ ik_fk_switch |-> F(0), autolips |-> F(5), stretch |-> F(7),
         weights |-> [t |-> "array", v |-> 3], k |-> F(9), head_free |-> I(1) ]

PoseScene(arp, poses, props_a, paths) ==
    /\ bones = {"a", "ab"} \cup (IF arp THEN {"c_pos"} ELSE {})
    /\ parent = [b \in bones |-> IF b = "ab" THEN "a" ELSE NoBone]
    /\ use_deform = [b \in bones |-> TRUE]
    /\ pose = poses
    /\ bprops = [b \in bones |-> IF b = "a" THEN props_a ELSE EmptyMap]
    /\ oprops = ObjectProps
    /\ rna = DefaultRna
    /\ proplist = paths
    /\ oname = DefaultNames
    /\ arp_installed = arp
    /\ InitQuietScene

ClearPoseCalls(objs) ==
    [ fn : {"clear_pose"}, obj : objs, clear_gret_props : BOOLEAN,
      clear_armature_props : BOOLEAN, clear_bone_props : BOOLEAN ]

\* Every list of recorded paths, on one posed armature.
InitPosePaths ==
    /\ \E arp \in BOOLEAN, paths \in PathLists :
          PoseScene(arp,
                    [b \in {"a", "ab"} \cup (IF arp THEN {"c_pos"} ELSE {})
                       |-> PosedTransform],
                    BoneProps, paths)
    /\ call \in ClearPoseCalls({"rig"})
    /\ InitCall

\* Every prior pose, on armatures with and without bone properties, and
\* calls on objects that are no armature.
InitPoseBones ==
    /\ \E arp \in BOOLEAN, props_a \in {EmptyMap, BoneProps} :
          \E poses \in [{"a", "ab"} \cup (IF arp THEN {"c_pos"} ELSE {})
                          -> TransformPool] :
              PoseScene(arp, poses, props_a, << Path_gone, Path_k, Path_x >>)
    /\ call \in ClearPoseCalls({"rig", "mesh1", None})
    /\ InitCall

InitPose == InitPosePaths \/ InitPoseBones

CallClearPose ==
    /\ pc = "idle"
    /\ call.fn = "clear_pose"
    /\ LET st == clear_pose(RigState, call.obj, call.clear_gret_props,
                            call.clear_armature_props, call.clear_bone_props)
       IN /\ oprops' = st.oprops
          /\ bprops' = st.bprops
          /\ rna' = st.rna
          /\ pose' = st.pose
    /\ pc' = "done"
    /\ UNCHANGED << fixedVars, use_deform, pose_position, objVars, addonVars,
                    locals, exc, result, oplog >>

NextPose == CallClearPose

SpecPose == InitPose /\ [][NextPose]_vars

(***************************************************************************)
(* SpecExport: the three export entry points, step by step                 *)
(***************************************************************************)
\* if action: raise NotImplementedError  (FbxNeverRejects: without it)
FbxNeverRejects(action) == FALSE

FbxRejects(action) == action # NoAction

\* What the export operator saw: the scene when it was invoked, whether the
\* real save ran, and the deform flags it ran with.
OpEntry(op, ran, deform) ==
    [ op |-> op, scene |-> Scene, save_fn |-> arp_save_fn, saved |-> ran,
      deform_at_save |-> deform ]

\* export_autorig lines 269-281
AutorigCheckIK ==
    /\ pc = "idle"
    /\ call.fn = "export_autorig"
    /\ LET verdict == IKVerdict(ik_bones_not_found)
       IN \/ /\ verdict = "raise"
             /\ Raise("Exception", "ik_check")
          \/ /\ verdict # "raise"
             /\ locals' = [locals EXCEPT !.add_ik_bones = (verdict = "ok_none")]
             /\ pc' = "ik_checked"
             /\ exc' = exc
    /\ UNCHANGED << fixedVars, rigVars, objVars, addonVars, result, oplog >>

\* export_autorig lines 284-340, export_autorig_universal lines 358-408.
\* Without the add-on the scene has no arp_* property and the first
\* assignment raises.
Configure ==
    /\ \/ pc = "ik_checked" /\ call.fn = "export_autorig"
       \/ pc = "idle" /\ call.fn = "export_autorig_universal"
    /\ \/ /\ ~arp_installed
          /\ Raise("AttributeError", "configure")
          /\ scn' = scn
       \/ /\ arp_installed
          /\ scn' = IF call.fn = "export_autorig"
                    THEN ConfigureAutorig(scn, call.options, call.action,
                                          locals.add_ik_bones)
                    ELSE ConfigureUniversal(scn, call.options, call.action)
          /\ pc' = "configured"
          /\ UNCHANGED << locals, exc >>
    /\ UNCHANGED << fixedVars, rigVars, objVars, arp_save_fn, patcher,
                    result, oplog >>

\* export_fbx lines 423-438
FbxRename ==
    /\ pc = "idle"
    /\ call.fn = "export_fbx"
    /\ \/ /\ FbxRejects(call.action)
          /\ Raise("NotImplementedError", "action")
          /\ oname' = oname
       \/ /\ ~FbxRejects(call.action)
          /\ LET existing == ObjectNamed(oname, root_bone_name)
                 n1 == IF existing # None
                       THEN SetName(oname, existing, root_bone_name \o "_")
                       ELSE oname
             IN /\ locals' = [locals EXCEPT
                                !.existing_obj_named_root = existing,
                                !.saved_rig_name = n1["rig"],
                                !.renamed = TRUE]
                /\ oname' = RenameForExport(oname, "rig")
          /\ pc' = "renamed"
          /\ exc' = exc
    /\ UNCHANGED << fixedVars, rigVars, selected, active, addonVars, result,
                    oplog >>

\* The entry points without the two lines of the pose reset.
ResetPoseSkipped ==
    /\ \/ pc = "configured" /\ call.fn \in ArpEntryPoints
       \/ pc = "renamed" /\ call.fn = "export_fbx"
    /\ pc' = "posed"
    /\ UNCHANGED << fixedVars, rigVars, objVars, addonVars, locals, exc,
                    result, oplog >>

\* rig.data.pose_position = 'POSE'; clear_pose(rig)
ResetPose ==
    /\ \/ pc = "configured" /\ call.fn \in ArpEntryPoints
       \/ pc = "renamed" /\ call.fn = "export_fbx"
    /\ pose_position' = "POSE"
    /\ \/ /\ call.fault = "clear_pose"
          /\ Raise("RuntimeError", "clear_pose")
          /\ UNCHANGED << oprops, bprops, rna, pose >>
       \/ /\ call.fault # "clear_pose"
          /\ LET st == clear_pose(RigState, "rig", TRUE, FALSE, TRUE)
             IN /\ oprops' = st.oprops
                /\ bprops' = st.bprops
                /\ rna' = st.rna
                /\ pose' = st.pose
          /\ pc' = "posed"
          /\ UNCHANGED << locals, exc >>
    /\ UNCHANGED << fixedVars, use_deform, objVars, addonVars, result, oplog >>

\* export_fbx lines 442-446
FbxUnmark ==
    /\ pc = "posed"
    /\ call.fn = "export_fbx"
    /\ \/ /\ call.fault = "unmark" /\ Unmarks(call.options)
          /\ Raise("RuntimeError", "unmark")
          /\ use_deform' = use_deform
       \/ /\ ~(call.fault = "unmark" /\ Unmarks(call.options))
          /\ use_deform' = fbx_deform(BoneSeq, parent, use_deform,
                                      call.options, call.objects)
          /\ pc' = "unmarked"
          /\ UNCHANGED << locals, exc >>
    /\ UNCHANGED << fixedVars, pose, bprops, pose_position, oprops, rna,
                    objVars, addonVars, result, oplog >>

\* select_only(context, objects); rig.select_set(True);
\* context.view_layer.objects.active = rig
Select ==
    /\ \/ pc = "posed" /\ call.fn \in ArpEntryPoints
       \/ pc = "unmarked" /\ call.fn = "export_fbx"
    /\ \/ /\ call.fault = "select_only"
          /\ Raise("RuntimeError", "select_only")
          /\ UNCHANGED << selected, active >>
       \/ /\ call.fault # "select_only"
          /\ selected' = select_only(call.objects) \cup {"rig"}
          /\ active' = "rig"
          /\ pc' = "selected"
          /\ UNCHANGED << locals, exc >>
    /\ UNCHANGED << fixedVars, rigVars, oname, addonVars, result, oplog >>

\* with FunctionPatcher(...) as patcher: patcher['options'] = options
PatchEnter ==
    /\ pc = "selected"
    /\ call.fn \in ArpEntryPoints
    /\ arp_save_fn' = FunctionPatcherEnter
    /\ patcher' = [options |-> call.options]
    /\ pc' = "patched"
    /\ UNCHANGED << fixedVars, rigVars, objVars, scn, locals, exc, result,
                    oplog >>

\* bpy.ops.id.arp_export_fbx_panel(filepath=filepath): the add-on exports
\* through its module-level arp_save, which is the wrapper while patched.
ArpOperator ==
    /\ pc = "patched"
    /\ LET wrapped == arp_save_fn = "wrapper"
           opts == IF wrapped THEN patcher.options ELSE EmptyMap
           fails_in_wrapper == wrapped /\ call.fault = "unmark" /\ Unmarks(opts)
           deform == IF wrapped /\ ~fails_in_wrapper
                     THEN arp_save_deform(BoneSeq, parent, use_deform, opts,
                                          selected)
                     ELSE use_deform
           ran == ~fails_in_wrapper /\ call.fault # "operator"
       IN /\ use_deform' = deform
          /\ oplog' = Append(oplog, OpEntry("id.arp_export_fbx_panel", ran,
                                            deform))
          /\ \/ /\ ran
                /\ locals' = [locals EXCEPT !.result = "FINISHED"]
                /\ pc' = "op_done"
                /\ exc' = exc
             \/ /\ ~ran
                /\ exc' = "RuntimeError"
                /\ locals' = [locals EXCEPT
                                !.raised = "RuntimeError",
                                !.raised_at = IF fails_in_wrapper
                                              THEN "unmark" ELSE "operator"]
                /\ pc' = "op_raised"
    /\ UNCHANGED << fixedVars, pose, bprops, pose_position, oprops, rna,
                    objVars, addonVars, result >>

\* Leaving the with block, by return or by exception.
PatchExit ==
    /\ pc \in {"op_done", "op_raised"}
    /\ call.fn \in ArpEntryPoints
    /\ arp_save_fn' = IF pc \in WithExits THEN FunctionPatcherExit
                      ELSE arp_save_fn
    /\ pc' = IF pc = "op_done" THEN "returning" ELSE "raising"
    /\ UNCHANGED << fixedVars, rigVars, objVars, scn, patcher, locals, exc,
                    result, oplog >>

\* result = bpy.ops.export_scene.fbx(...)
FbxOperator ==
    /\ pc = "selected"
    /\ call.fn = "export_fbx"
    /\ LET ran == call.fault # "operator"
       IN /\ oplog' = Append(oplog, OpEntry("export_scene.fbx", ran,
                                            use_deform))
          /\ \/ /\ ran
                /\ locals' = [locals EXCEPT !.result = "FINISHED"]
                /\ pc' = "op_done"
                /\ exc' = exc
             \/ /\ ~ran
                /\ Raise("RuntimeError", "operator")
    /\ UNCHANGED << fixedVars, rigVars, objVars, addonVars, result >>

\* export_fbx lines 495-497
FbxCleanUp ==
    /\ pc = "op_done"
    /\ call.fn = "export_fbx"
    /\ oname' = RestoreNames(oname, "rig", locals.saved_rig_name,
                             locals.existing_obj_named_root)
    /\ pc' = "returning"
    /\ UNCHANGED << fixedVars, rigVars, selected, active, addonVars, locals,
                    exc, result, oplog >>

\* return result
Return ==
    /\ pc = "returning"
    /\ result' = locals.result
    /\ pc' = "done"
    /\ UNCHANGED << fixedVars, rigVars, objVars, addonVars, locals, exc,
                    oplog >>

\* The intercept wrapper: an exception leaving the function becomes the
\* error result; without the wrapper it reaches the caller.
Intercept ==
    /\ pc = "raising"
    /\ result' = IF call.fn \in Intercepted THEN error_result ELSE result
    /\ exc' = IF call.fn \in Intercepted THEN NoExc ELSE exc
    /\ pc' = "done"
    /\ UNCHANGED << fixedVars, rigVars, objVars, addonVars, locals, oplog >>

NextExport ==
    \/ AutorigCheckIK \/ Configure \/ FbxRename \/ ResetPose \/ FbxUnmark
    \/ Select \/ PatchEnter \/ ArpOperator \/ PatchExit \/ FbxOperator
    \/ FbxCleanUp \/ Return \/ Intercept

\* The armature of the export scenes: three generic bones and the IK bones
\* of `present`, those of `unmarked` without the 'custom_bone' property.
ExportScene(present, unmarked, all_deform, names, arp) ==
    /\ bones = {"a", "ab", "b"} \cup present
    /\ parent = [b \in bones |-> IF b = "ab" THEN "a" ELSE NoBone]
    /\ use_deform = [b \in bones |-> all_deform \/ b \in {"ab", "ik_foot.l"}]
    /\ pose = [b \in bones |->
                 IF b \in {"a", "ik_foot.l"} THEN PosedTransform
                 ELSE IdentityTransform]
    /\ bprops = [b \in bones |->
                   IF b = "a" THEN [ik_fk_switch |-> F(0), stretch |-> F(7)]
                   ELSE IF b \in present \ unmarked
                   THEN [custom_bone |-> I(1)]
                   ELSE EmptyMap]
    /\ oprops = ObjectProps
    /\ rna = DefaultRna
    /\ proplist = << Path_gone, Path_x >>
    /\ oname = names
    /\ arp_installed = arp
    /\ InitExportScene

Walk ==
    [ name |-> "walk", use_frame_range |-> TRUE, frame_start |-> 15,
      frame_end |-> 249, curve_frame_range |-> << 0, 300 >> ]

Jump ==
    [ name |-> "jump", use_frame_range |-> FALSE, frame_start |-> 0,
      frame_end |-> 0, curve_frame_range |-> << -15, 127 >> ]

ActionPool == {NoAction, Walk, Jump}

OptionPool ==
    { EmptyMap, [minimize_bones |-> TRUE], [remove_bones |-> << "a*" >>],
      [minimize_bones |-> TRUE, remove_bones |-> << "*a" >>,
       export_twist |-> FALSE] }

ObjectLists == {{"mesh1"}, {"mesh1", "mesh2", "lat"}}

Faults == {"none", "clear_pose", "unmark", "select_only", "operator"}

ExportCalls(fns, actions, options, faults) ==
    [ fn : fns, objects : ObjectLists, action : actions, options : options,
      fault : faults ]

\* Every set of IK bones, with at most MaxUnmarked of them unmarked.
IKConfigs ==
    {c \in (SUBSET IKNames) \X (SUBSET IKNames) :
        c[2] \subseteq c[1] /\ Cardinality(c[2]) <= MaxUnmarked}

SomeIKConfigs ==
    { << {}, {} >>, << IKNames, {} >>,
      << {"ik_foot.l", "ik_foot.r"}, {} >>, << IKNames, {"ik_hand_gun"} >> }

\* The names of the armature and of the empty; the other objects keep theirs.
NameConfigs ==
    {[DefaultNames EXCEPT !["rig"] = r, !["empty"] = e] :
        r \in {"Armature", "root", "root_"}, e \in {"Empty", "root", "root_"}}

UniqueNames(names) ==
    \A x, y \in DOMAIN names : names[x] = names[y] => x = y

\* export_autorig on every IK configuration
InitAutorigIK ==
    /\ \E c \in IKConfigs : ExportScene(c[1], c[2], TRUE, DefaultNames, TRUE)
    /\ call \in ExportCalls({"export_autorig"}, {NoAction}, {EmptyMap},
                            {"none"})
    /\ InitCall

\* export_autorig and export_autorig_universal, every call and fault
InitArp ==
    /\ \E c \in SomeIKConfigs, all_deform \in BOOLEAN, arp \in BOOLEAN :
          ExportScene(c[1], c[2], all_deform, DefaultNames, arp)
    /\ call \in ExportCalls(ArpEntryPoints, ActionPool, OptionPool, Faults)
    /\ InitCall

\* export_fbx, every call and fault, every naming of the scene
InitFbx ==
    /\ \E names \in {n \in NameConfigs : UniqueNames(n)},
          all_deform \in BOOLEAN :
          ExportScene({}, {}, all_deform, names, FALSE)
    /\ call \in ExportCalls({"export_fbx"}, ActionPool, OptionPool, Faults)
    /\ InitCall

InitExport == InitAutorigIK \/ InitArp \/ InitFbx

SpecExport == InitExport /\ [][NextExport]_vars

(***************************************************************************)
(* SpecUnmark: the bone-unmarking options on every bone tree, as the       *)
(* patched arp_save and export_fbx apply them                              *)
(***************************************************************************)
MeshSets == {{}, {"mesh1"}, {"mesh2", "lat"}, {"mesh1", "mesh2", "lat"}}

\* Every combination of minimize_bones and remove_bones.
UnmarkOptions ==
    {[remove_bones |-> P] @@ m :
        P \in PatternLists, m \in {EmptyMap, [minimize_bones |-> TRUE]}}
    \cup {EmptyMap, [minimize_bones |-> TRUE]}

UnmarkRig ==
    /\ bones = {GenericNames[i] : i \in 1..NBones}
    /\ parent \in Forests(bones)
    /\ use_deform \in [bones -> BOOLEAN]
    /\ pose = [b \in bones |-> IdentityTransform]
    /\ bprops = [b \in bones |-> EmptyMap]
    /\ oprops = [obj |-> EmptyMap, data |-> EmptyMap]
    /\ rna = DefaultRna
    /\ proplist = << >>
    /\ pose_position = "POSE"
    /\ active = "rig"
    /\ scn = PriorScn
    /\ arp_installed = TRUE
    /\ exc = NoExc
    /\ result = None
    /\ oplog = << >>

\* The add-on's export calls arp_save, patched with the options of the
\* call, on the selection export_autorig made.
InitArpSave ==
    /\ UnmarkRig
    /\ call \in [fn : {"arp_save"}, objects : MeshSets,
                  options : UnmarkOptions, fault : {"none"}]
    /\ oname = DefaultNames
    /\ selected = call.objects \cup {"rig"}
    /\ arp_save_fn = "wrapper"
    /\ patcher = [options |-> call.options]
    /\ pc = "idle"
    /\ locals = NoLocals
    /\ pre = Scene

\* export_fbx after its rename and pose reset, before line 442.
InitFbxUnmark ==
    /\ UnmarkRig
    /\ call \in [fn : {"export_fbx"}, objects : MeshSets,
                  action : {NoAction}, options : UnmarkOptions,
                  fault : {"none"}]
    /\ oname = [DefaultNames EXCEPT !["rig"] = root_bone_name]
    /\ selected = {"empty"}
    /\ arp_save_fn = "original"
    /\ patcher = EmptyMap
    /\ pc = "posed"
    /\ locals = [NoLocals EXCEPT !.saved_rig_name = DefaultNames["rig"],
                                 !.renamed = TRUE]
    /\ pre = Scene

InitUnmark == InitArpSave \/ InitFbxUnmark

\* arp_save: unmark as the options say, then the real save, base(...).
CallArpSave ==
    /\ pc = "idle"
    /\ call.fn = "arp_save"
    /\ LET options == patcher.options
           deform == arp_save_deform(BoneSeq, parent, use_deform, options,
                                     selected)
       IN /\ use_deform' = deform
          /\ oplog' = Append(oplog, OpEntry("base", TRUE, deform))
    /\ locals' = [locals EXCEPT !.result = "FINISHED"]
    /\ pc' = "returning"
    /\ UNCHANGED << fixedVars, pose, bprops, pose_position, oprops, rna,
                    objVars, addonVars, exc, result >>

NextUnmark == CallArpSave \/ FbxUnmark \/ Return

SpecUnmark == InitUnmark /\ [][NextUnmark]_vars

Init == InitBones \/ InitPose \/ InitExport \/ InitUnmark

Next == NextBones \/ NextPose \/ NextExport \/ CallArpSave

Spec == Init /\ [][Next]_vars

(***************************************************************************)
(* Claims about the bone functions (SpecBones)                             *)
(***************************************************************************)
\* Whether the bone or one of its descendants is named like a vertex group
\* of a mesh object among objs.
BacksVertexGroup(b, objs) ==
    \E o \in objs :
        /\ ObjType(o) = "MESH"
        /\ \E g \in VertexGroups(o) :
              g = b \/ g \in children_recursive(parent, b)

\* C2: after unmark_unused_bones(rig, M) a bone has deform enabled if and
\* only if it or one of its descendants is named like a vertex group of a
\* mesh object of M; objects of M that are not meshes count for nothing.
C2_UnusedBonesIff ==
    (pc = "done" /\ call.fn = "unmark_unused_bones") =>
        \A b \in bones : use_deform[b] <=> BacksVertexGroup(b, call.objs)

\* A call whose set holds the lattice, that enabled a bone through one of
\* its descendants and disabled a bone that was enabled.
C2_Witness ==
    /\ pc = "done" /\ call.fn = "unmark_unused_bones"
    /\ "lat" \in call.objs
    /\ \E b \in bones :
          /\ use_deform[b] /\ ~pre.use_deform[b]
          /\ \A o \in call.objs : b \notin VertexGroups(o)
    /\ \E b \in bones : ~use_deform[b] /\ pre.use_deform[b]

\* C3: after unmark_bones(rig, P) every bone whose name matches a pattern
\* of P, and every descendant of such a bone, has deform disabled, whatever
\* the deform flag of the matching bone was before.
C3_MatchingAndDescendantsDisabled ==
    (pc = "done" /\ call.fn = "unmark_bones") =>
        \A b \in bones :
            MatchesAny(b, call.bone_names) =>
                /\ ~use_deform[b]
                /\ \A c \in children_recursive(parent, b) : ~use_deform[c]

(***************************************************************************)
(* Claims about clear_pose (SpecPose)                                      *)
(***************************************************************************)
ClearPoseDone ==
    /\ pc = "done" /\ call.fn = "clear_pose"
    /\ call.obj # None /\ ObjType(call.obj) = "ARMATURE"

IsIdentity(t) ==
    /\ t.location = << 0, 0, 0 >>
    /\ t.rotation_quaternion = << 10, 0, 0, 0 >>
    /\ t.rotation_euler = << 0, 0, 0 >>
    /\ t.rotation_axis_angle = << 0, 0, 10, 0 >>
    /\ t.scale = << 10, 10, 10 >>

\* C4: after clear_pose on an armature every pose bone has location zero,
\* identity rotation in the three rotation channels and scale one, whatever
\* the transforms were, whatever the three flags are and whatever custom
\* properties the object and its bones hold.
C4_PoseIsIdentity ==
    ClearPoseDone => \A b \in bones : IsIdentity(pose[b])

\* A call with every flag off, on an armature with a posed bone that holds
\* custom properties, one of them of a type that cannot be reset.
C4_Witness ==
    /\ ClearPoseDone
    /\ ~call.clear_gret_props /\ ~call.clear_bone_props
    /\ ~call.clear_armature_props
    /\ \E b \in bones :
          /\ ~IsIdentity(pre.pose[b])
          /\ "weights" \in DOMAIN bprops[b]

PreRigState ==
    [oprops |-> pre.oprops, bprops |-> pre.bprops, rna |-> pre.rna,
     pose |-> pre.pose, proplist |-> pre.proplist]

\* The value now held by the property a wrapper stands for, and its default.
ValueOf(w) ==
    IF w.is_custom THEN CustomOf(RigState, w.data)[w.path]
    ELSE rna[w.data][w.path]

DefaultOf(w) ==
    IF w.is_custom THEN UIDefault(w.path) ELSE RNADefault(w.path)

\* The listed paths that resolve and whose default can be read and written.
Resolving ==
    {i \in 1..Len(proplist) : ~Skipped(PreRigState, proplist[i])}

SomeSkipped ==
    \E i \in 1..Len(proplist) : Skipped(PreRigState, proplist[i])

\* A later step of clear_pose writes the property again: clear_armature_props
\* zeroes the float custom properties of the object, clear_bone_props resets
\* the custom properties of the pose bones.
RewrittenLater(w) ==
    \/ /\ call.clear_armature_props
       /\ w.is_custom /\ w.data = "obj" /\ DefaultOf(w).t = "float"
    \/ /\ call.clear_bone_props
       /\ w.is_custom /\ w.data \in bones

\* C10 as stated: with a listed path that cannot be reset, clear_pose
\* raises nothing, every other listed property that resolves holds its
\* default value and every pose bone is reset.
C10_OthersHoldDefault ==
    (ClearPoseDone /\ call.clear_gret_props /\ SomeSkipped) =>
        /\ exc = NoExc
        /\ \A i \in Resolving :
              LET w == from_path(PreRigState, "obj", proplist[i])
              IN ValueOf(w) = DefaultOf(w)
        /\ \A b \in bones : IsIdentity(pose[b])

\* C10, amended: with a listed path that cannot be reset, clear_pose raises
\* nothing, every other listed property that resolves holds its default
\* value unless a later step of the same call wrote it again, and every
\* pose bone is reset.
C10_OthersHoldDefaultUnlessRewritten ==
    (ClearPoseDone /\ call.clear_gret_props /\ SomeSkipped) =>
        /\ exc = NoExc
        /\ \A i \in Resolving :
              LET w == from_path(PreRigState, "obj", proplist[i])
              IN ~RewrittenLater(w) => ValueOf(w) = DefaultOf(w)
        /\ \A b \in bones : IsIdentity(pose[b])

\* A list whose first path cannot be reset and whose second path was set
\* to its default, away from the value it had, on a posed armature.
C10_Witness ==
    /\ ClearPoseDone /\ call.clear_gret_props
    /\ Len(proplist) >= 2
    /\ Skipped(PreRigState, proplist[1])
    /\ 2 \in Resolving
    /\ LET w == from_path(PreRigState, "obj", proplist[2])
       IN /\ ~RewrittenLater(w)
          /\ ValueOf(w) = DefaultOf(w)
          /\ ValueOf(w) # (IF w.is_custom
                           THEN CustomOf(PreRigState, w.data)[w.path]
                           ELSE pre.rna[w.data][w.path])
    /\ \E b \in bones : ~IsIdentity(pre.pose[b])

(***************************************************************************)
(* Claims about the export entry points (SpecExport)                       *)
(***************************************************************************)
\* The expected IK bones that were not export-marked pose bones when the
\* call started.
PreIKMissing ==
    {n \in IKNames :
        n \notin pre.bones \/ "custom_bone" \notin DOMAIN pre.bprops[n]}

\* Some but not all of the expected IK bones are missing or unmarked.
PartialIK == PreIKMissing # {} /\ PreIKMissing # IKNames

Finished(fn) == pc = "done" /\ call.fn = fn

\* C1: when some but not all of the seven IK bones are missing or not
\* marked for export, export_autorig ends with the result CANCELLED and no
\* export operator is invoked at any point of the call.
C1_PartialIKFailsBeforeExport ==
    (call.fn = "export_autorig" /\ PartialIK) =>
        /\ oplog = << >>
        /\ pc = "done" => result = "CANCELLED"

\* A finished export_autorig, with the add-on loaded and no host failure,
\* on an armature that has all seven IK bones, one of them unmarked.
C1_Witness ==
    /\ Finished("export_autorig")
    /\ PartialIK /\ IKNames \subseteq bones
    /\ arp_installed /\ call.fault = "none"
    /\ result = "CANCELLED"

\* C5: when export_autorig has ended, by return or by exception, the
\* add-on's arp_save is the original function again.
C5_PatchRestored ==
    Finished("export_autorig") => arp_save_fn = "original"

\* export_autorig ended by an exception raised in the export operator,
\* which ran with the wrapper in place.
C5_Witness ==
    /\ Finished("export_autorig")
    /\ locals.raised_at = "operator"
    /\ Len(oplog) = 1 /\ oplog[1].save_fn = "wrapper"
    /\ arp_save_fn = "original"

\* C6: when export_fbx has ended after renaming the armature to "root",
\* every object has the name it had before the call, whether the export
\* operator returned or a step after the renaming raised.
C6_NamesRestored ==
    (Finished("export_fbx") /\ locals.renamed) => oname = pre.oname

\* C7: an exception raised in an export entry point does not reach the
\* caller: the call ends with the result CANCELLED, and the export operator
\* was invoked at most once.
C7_ExceptionsBecomeCancelled ==
    (pc = "done" /\ call.fn \in EntryPoints /\ locals.raised # NoExc) =>
        /\ exc = NoExc
        /\ result = "CANCELLED"
        /\ Len(oplog) <= 1

\* export_fbx ended by an exception of its export operator.
C7_Witness ==
    /\ Finished("export_fbx")
    /\ locals.raised = "RuntimeError" /\ locals.raised_at = "operator"
    /\ Len(oplog) = 1 /\ ~oplog[1].saved
    /\ result = "CANCELLED"

\* C8: when export_autorig fails because only some IK bones are present,
\* the scene is as it was before the call: scene options, pose bones and
\* their properties, deform flags, selection, active object, patch state.
C8_PartialIKLeavesScene ==
    (call.fn = "export_autorig" /\ PartialIK) => Scene = pre

\* The example of the specification: only ik_foot.l and ik_foot.r present,
\* on a posed armature, in a call that asks for bone minimization.
C8_Witness ==
    /\ Finished("export_autorig")
    /\ IKNames \cap bones = {"ik_foot.l", "ik_foot.r"}
    /\ PartialIK
    /\ Get(call.options, "minimize_bones", FALSE)
    /\ \E b \in bones : ~IsIdentity(pose[b])
    /\ scn.arp_engine_type # "unreal"

\* C9: export_fbx with an action raises NotImplementedError and ends with
\* the result CANCELLED; the export operator is never invoked, no object is
\* renamed, no pose is cleared and no deform flag is changed.
C9_FbxActionAlwaysFails ==
    (call.fn = "export_fbx" /\ call.action # NoAction) =>
        /\ oplog = << >>
        /\ oname = pre.oname
        /\ pose = pre.pose /\ bprops = pre.bprops
        /\ use_deform = pre.use_deform
        /\ pc = "done" =>
              locals.raised = "NotImplementedError" /\ result = "CANCELLED"

\* export_fbx with an action, on a scene where another object is named
\* "root", a bone is posed and the options would have unmarked bones.
C9_Witness ==
    /\ Finished("export_fbx")
    /\ call.action # NoAction
    /\ oname["empty"] = "root"
    /\ Unmarks(call.options)
    /\ \E b \in bones : ~IsIdentity(pose[b])
    /\ result = "CANCELLED"

(***************************************************************************)
(* Claims about the IK option of export_autorig (SpecExport)               *)
(***************************************************************************)
\* export_autorig is past its configuration block.
AutorigConfigured ==
    /\ call.fn = "export_autorig"
    /\ pc \notin {"idle", "ik_checked"}
    /\ locals.raised_at \notin {"ik_check", "configure"}

\* C11: in export_autorig, once the configuration has run, scene.arp_ue_ik
\* is true exactly when none of the seven IK bones is an export-marked pose
\* bone and false exactly when all seven are; before that, and with only
\* some of the bones, the option keeps its prior value; the export operator,
\* whenever it is invoked, sees the option with that value, and it is
\* invoked in every such call that no failure ends earlier.
C11_IKOptionFollowsBones ==
    call.fn = "export_autorig" =>
        /\ AutorigConfigured =>
              /\ ~PartialIK
              /\ scn.arp_ue_ik = (PreIKMissing = IKNames)
              /\ ~scn.arp_ue_ik = (PreIKMissing = {})
        /\ ~AutorigConfigured => scn.arp_ue_ik = pre.scn.arp_ue_ik
        /\ \A i \in 1..Len(oplog) :
              oplog[i].scene.scn.arp_ue_ik = (PreIKMissing = IKNames)
        /\ (pc = "done" /\ ~PartialIK /\ arp_installed
               /\ call.fault \in {"none", "operator"}) => Len(oplog) = 1

\* A finished export_autorig on an armature with all seven IK bones marked,
\* in a scene whose IK option was on: the operator ran with the option off.
C11_Witness ==
    /\ Finished("export_autorig")
    /\ PreIKMissing = {}
    /\ pre.scn.arp_ue_ik
    /\ Len(oplog) = 1 /\ oplog[1].saved
    /\ ~oplog[1].scene.scn.arp_ue_ik
    /\ result = "FINISHED"

(***************************************************************************)
(* Claims about removal and minimization together (SpecUnmark)             *)
(***************************************************************************)
BothRequested ==
    /\ Get(call.options, "minimize_bones", FALSE)
    /\ Get(call.options, "remove_bones", << >>) # << >>

\* Every bone matching a remove_bones pattern, and every descendant of one,
\* has deform disabled in `deform`.
RemovedIn(deform) ==
    \A b \in bones :
        MatchesAny(b, Get(call.options, "remove_bones", << >>)) =>
            /\ ~deform[b]
            /\ \A c \in children_recursive(parent, b) : ~deform[c]

\* C12: when minimize_bones and remove_bones are both requested, every bone
\* matching a remove_bones pattern and every descendant of such a bone has
\* deform disabled when the real save runs inside the patched arp_save and
\* when export_fbx has applied its options, whatever the bone tree, the
\* prior flags and the meshes, vertex groups of those bones included.
C12_RemovalOverridesMinimization ==
    (call.fn \in {"arp_save", "export_fbx"} /\ BothRequested) =>
        /\ \A i \in 1..Len(oplog) :
              oplog[i].saved => RemovedIn(oplog[i].deform_at_save)
        /\ (call.fn = "export_fbx" /\ pc = "unmarked") =>
              RemovedIn(use_deform)

\* The real save runs after both steps, on a tree where a bone matching a
\* pattern has a child that backs a vertex group of an exported mesh, so
\* that minimization alone keeps both.
C12_Witness ==
    /\ call.fn = "arp_save" /\ BothRequested
    /\ Len(oplog) = 1 /\ oplog[1].saved
    /\ \E b \in bones :
          /\ MatchesAny(b, call.options.remove_bones)
          /\ \E c \in children_recursive(parent, b) :
                /\ BacksVertexGroup(c, call.objects)
                /\ unmark_unused_bones(parent, selected)[b]
                /\ unmark_unused_bones(parent, selected)[c]
                /\ ~oplog[1].deform_at_save[c]

(***************************************************************************)
(* Claims about the pose reset before the export (SpecExport)              *)
(***************************************************************************)
\* The armature of scene s is in pose mode with every pose bone at identity.
PoseReset(s) ==
    /\ s.pose_position = "POSE"
    /\ \A b \in s.bones : IsIdentity(s.pose[b])

\* C13: in the three export entry points, from the moment clear_pose has
\* returned until the export operator is invoked, the armature is in pose
\* mode and every pose bone is at identity, as clear_pose left it; so
\* every invocation of the operator sees the reset pose.
C13_PoseResetBeforeExport ==
    call.fn \in EntryPoints =>
        /\ pc \in {"posed", "unmarked", "selected", "patched"} =>
              PoseReset(Scene)
        /\ \A i \in 1..Len(oplog) : PoseReset(oplog[i].scene)
        /\ oplog # << >> => locals.raised_at # "clear_pose"

\* The add-on's operator was invoked, with bone options that change deform
\* flags in between, on an armature that was in rest position with a posed
\* bone before the call.
C13_Witness ==
    /\ call.fn = "export_autorig_universal"
    /\ Len(oplog) = 1 /\ oplog[1].saved
    /\ Unmarks(call.options)
    /\ pre.pose_position = "REST"
    /\ \E b \in bones : ~IsIdentity(pre.pose[b])
    /\ PoseReset(oplog[1].scene)
    /\ oplog[1].deform_at_save # pre.use_deform

====
